---- MODULE Spec2Model ----
(***************************************************************************)
(* nanomax-analysis-utils: the near-field propagation wrapper and the       *)
(* periodic shift (nmutils/utils/utils.py: propagateNearfield, shift), the  *)
(* fluorescence widget (XrfWidget, PairedWidgetBase) and the loading of     *)
(* scans by the viewer (apps/scanViewer/main.py: ScanViewer.load).          *)
(*                                                                         *)
(* propagateNearfield is modelled statement by statement; ptypy's Geo is a  *)
(* library object whose propagator applies the kernel computed by the last  *)
(* update(), and a propagated plane is kept as the term fw(plane, kernel).  *)
(***************************************************************************)
EXTENDS Integers, Sequences, FiniteSets, TLC

VARIABLES
    pc,          \* position inside propagateNearfield
    heap,        \* arrays by reference; heap[ARef] is the caller's array A
    distances,   \* the caller's distances object (a scalar or a sequence)
    dists,       \* the local name "distances" after line 173
    psize,       \* argument psize
    energy,      \* argument energy
    DEFAULT,     \* ptypy.core.geometry.DEFAULT, a module-level Param
    geo_pars,    \* local geo_pars
    geo,         \* local geo (ptypy Geo object)
    result,      \* reference of the local result array (0: not allocated)
    i,           \* loop index of line 192
    outcome,     \* how the call ended
    A0,          \* the array A as it was when the call started
    distances0,  \* the distances object as it was when the call started
    memo,        \* the result of the first completed call with ProbeArgs
    others,      \* a call with other arguments completed after that one
    \* XrfWidget and the widgets it owns
    scan,             \* self.scan
    sampling,         \* self.map.interpolBox.value()
    mask,             \* the selection mask of the map's mask tool
    roi,              \* self.spectrum.getCurvesRoiWidget().currentRoi
    selectionMode,    \* self.selectionMode
    indexBox,         \* self.map.indexBox.value()
    last_map_update,  \* self.last_map_update
    now,              \* time.time()
    status,           \* the message of the window's status bar
    printed,          \* the last line printed
    image,            \* the map's image with legend 'data'
    curve,            \* the spectrum's curve with legend 'data'
    maskToolsVisible, \* visibility of the map's mask tools dock widget
    indexMarker,      \* the map shows the 'index marker' curve
    maskedPositions,  \* local maskedPositions of the last updateSpectrum
    raised,           \* the exception the last handler raised ("" for none)
    ran,              \* the handler that ran last and how far it got
    scanSet,          \* the widget has the attribute self.scan
    indexMax,         \* self.map.indexBox.maximum()
    selected_idx,     \* self.selected_idx
    indRead,          \* the index the last event read the spectrum at
    lookup,           \* the grid the last event looked masked positions up on
    \* shift
    shiftPc,     \* position inside shift
    a_caller,    \* the caller's array a
    a_local,     \* the local name a (rebound by line 16)
    shifts,      \* the local shifts after line 11
    a_,          \* the local a_
    shiftOutcome, \* how the call of shift ended
    \* ScanViewer
    loadPc,       \* position inside ScanViewer.load
    objs,         \* the scan objects, by reference (a reference is an index)
    viewer_scan,  \* self.scan of the viewer (NoRef for None)
    comWidget,    \* the scan self.ui.comWidget holds
    xrdWidget,    \* the scan self.ui.xrdWidget holds
    xrfWidget,    \* the scan self.ui.xrfWidget holds
    appendBox,    \* self.ui.appendBox.isChecked()
    scan_,        \* local scan_
    has_xrd,      \* local has_xrd
    has_xrf,      \* local has_xrf
    fileN,        \* the number of positions the file being loaded holds
    viewerStatus, \* the message of the status bar
    before,       \* the viewer as it was when load was called
    loadResult,   \* how the last load ended, and where it failed
    loads         \* the number of loads so far

propVars == <<pc, heap, distances, dists, psize, energy, DEFAULT, geo_pars,
              geo, result, i, outcome, A0, distances0, memo, others>>

xrfVars == <<scan, sampling, mask, roi, selectionMode, indexBox,
             last_map_update, now, status, printed, image, curve,
             maskToolsVisible, indexMarker, maskedPositions, raised, ran,
             scanSet, indexMax, selected_idx, indRead, lookup>>

shiftVars == <<shiftPc, a_caller, a_local, shifts, a_, shiftOutcome>>

viewerVars == <<loadPc, objs, viewer_scan, comWidget, xrdWidget, xrfWidget,
                appendBox, scan_, has_xrd, has_xrf, fileN, viewerStatus,
                before, loadResult, loads>>

nonPropVars == <<xrfVars, shiftVars, viewerVars>>

nonXrfVars == <<propVars, shiftVars, viewerVars>>

nonShiftVars == <<propVars, xrfVars, viewerVars>>

nonViewerVars == <<propVars, xrfVars, shiftVars>>

vars == <<propVars, xrfVars, shiftVars, viewerVars>>

--------------------------------------------------------------------------
(* Bounds of the model *)

MaxN == 2

MaxDistances == 2

(* Argument values.  Distances are signed; a zero distance, a zero energy   *)
(* and a zero pixel size are left to ptypy and are not drawn.               *)
DistanceValues == {-1, 1, 2}

PSizes == {-1, 1}

Energies == {-1, 1, 2}

FieldIds == {"f1", "f2"}

DTypes == {"complex128", "float64"}

--------------------------------------------------------------------------
(* Arrays: a shape, a dtype and the content, one entry per leading plane.   *)

NoKernel == [distance |-> 0, energy |-> 0, psize |-> 0, shape |-> 0]

Plane(op, src, k) == [op |-> op, src |-> src, k |-> k]

InputPlane(f) == Plane("in", f, NoKernel)

ZeroPlane == Plane("zeros", "", NoKernel)

NoArray == [shape |-> <<>>, dtype |-> "", v |-> <<>>]

SquareArrays ==
    { [shape |-> <<n, n>>, dtype |-> t, v |-> <<InputPlane(f)>>] :
        n \in 1..MaxN, t \in DTypes, f \in FieldIds }

RECURSIVE SeqsOver(_, _)
SeqsOver(S, n) ==
    IF n = 0 THEN { <<>> }
    ELSE LET shorter == SeqsOver(S, n - 1)
         IN  shorter \cup { Append(s, x) : s \in { t \in shorter : Len(t) = n - 1 }, x \in S }

NonSquareShapes ==
    { s \in SeqsOver(1..MaxN, 3) : ~(Len(s) = 2 /\ s[1] = s[2]) }

NonSquareArrays ==
    { [shape |-> s, dtype |-> "complex128", v |-> <<InputPlane("f1")>>] :
        s \in NonSquareShapes }

Arrays == SquareArrays \cup NonSquareArrays

Scalar(d) == [kind |-> "scalar", d |-> d, s |-> <<>>]

Sequence(s) == [kind |-> "seq", d |-> 0, s |-> s]

DistanceArgs ==
    { Scalar(d) : d \in DistanceValues }
        \cup { Sequence(s) : s \in SeqsOver(DistanceValues, MaxDistances) }

--------------------------------------------------------------------------
(* ptypy: Param, Geo and its near-field propagator *)

DefaultPars ==
    [energy |-> 0, distance |-> 0, resolution |-> 0, psize |-> 0,
     shape |-> 0, propagation |-> "farfield"]

NoGeo == [built |-> FALSE, p |-> DefaultPars, kernel |-> NoKernel]

(* The kernel the near-field propagator computes from the parameters.       *)
Kernel(p) ==
    [distance |-> p.distance, energy |-> p.energy, psize |-> p.psize,
     shape |-> p.shape]

(* Geo(pars=geo_pars): the parameters are taken over and the propagator is  *)
(* set up from them.                                                        *)
GeoNew(pars) == [built |-> TRUE, p |-> pars, kernel |-> Kernel(pars)]

(* geo.p.distance = d *)
GeoSetDistance(g, d) == [g EXCEPT !.p.distance = d]

(* geo.update(): the propagator recomputes its kernel from geo.p.           *)
GeoUpdate(g) == [g EXCEPT !.kernel = Kernel(g.p)]

(* geo.propagator.fw(A): the plane of A propagated with the current kernel. *)
Fw(g, a) == Plane("fw", a.v[1].src, g.kernel)

--------------------------------------------------------------------------
(* propagateNearfield, lines 147-197 *)

ARef == 1

NoRef == 0

(* lines 163-167: the two assertions *)
IsSquareOnlyRank(a) == Len(a.shape) = 2

IsSquare(a) == Len(a.shape) = 2 /\ a.shape[1] = a.shape[2]

(* lines 170-173: len(distances) raises TypeError for a scalar *)
WrapDistancesNoWrap(d) == d.s

WrapDistances(d) == IF d.kind = "scalar" THEN <<d.d>> ELSE d.s

(* lines 176-182: the copy of DEFAULT and the six assignments; the value is *)
(* the pair (geo_pars, DEFAULT after the assignments).                      *)
FillPars(p, a, ps, ds, en) ==
    [p EXCEPT !.energy = en, !.distance = ds[1], !.resolution = ps,
              !.psize = ps, !.shape = a.shape[1], !.propagation = "nearfield"]

SetParsAliased(default, a, ps, ds, en) ==
    [pars |-> FillPars(default, a, ps, ds, en),
     default |-> FillPars(default, a, ps, ds, en)]

SetPars(default, a, ps, ds, en) ==
    [pars |-> FillPars(default, a, ps, ds, en), default |-> default]

(* line 189: np.zeros((N,) + A.shape, dtype=A.dtype) *)
Zeros(n, a) ==
    [shape |-> <<n>> \o a.shape, dtype |-> a.dtype,
     v |-> [j \in 1..n |-> ZeroPlane]]

(* lines 193-194 *)
IterateNoUpdate(g, d) == GeoSetDistance(g, d)

Iterate(g, d) == GeoUpdate(GeoSetDistance(g, d))

(* the assignment of line 195 casts to the dtype of result: a complex value *)
(* stored in a real array keeps its real part only.                         *)
Cast(plane, dtype) ==
    IF dtype = "complex128" THEN plane
    ELSE Plane("real(" \o plane.op \o ")", plane.src, plane.k)

(* the index line 195 stores at (1-based) *)
StoreIndexFirst(j) == 1

StoreIndex(j) == j + 1

Args == [A |-> heap[ARef], psize |-> psize, distances |-> distances,
         energy |-> energy]

ProbeArgs ==
    [A |-> [shape |-> <<MaxN, MaxN>>, dtype |-> "complex128",
            v |-> <<InputPlane("f1")>>],
     psize |-> 1, distances |-> Sequence(<<1, 2>>), energy |-> 1]

PropInit ==
    /\ pc = "idle"
    /\ heap = <<NoArray>>
    /\ distances = Sequence(<<>>)
    /\ dists = <<>>
    /\ psize = 0
    /\ energy = 0
    /\ DEFAULT = DefaultPars
    /\ geo_pars = DefaultPars
    /\ geo = NoGeo
    /\ result = NoRef
    /\ i = 0
    /\ outcome = "none"
    /\ A0 = NoArray
    /\ distances0 = Sequence(<<>>)
    /\ memo = <<>>
    /\ others = FALSE

(* a caller calls propagateNearfield(A, psize, distances, energy) *)
Call ==
    /\ pc = "idle"
    /\ \E a \in Arrays, d \in DistanceArgs, ps \in PSizes, en \in Energies :
          /\ heap' = <<a>>
          /\ A0' = a
          /\ distances' = d
          /\ distances0' = d
          /\ psize' = ps
          /\ energy' = en
    /\ dists' = <<>>
    /\ geo_pars' = DefaultPars
    /\ geo' = NoGeo
    /\ result' = NoRef
    /\ i' = 0
    /\ outcome' = "none"
    /\ pc' = "check"
    /\ UNCHANGED <<DEFAULT, memo, others>>
    /\ UNCHANGED nonPropVars

(* lines 163-167 *)
CheckSquare ==
    /\ pc = "check"
    /\ IF IsSquare(heap[ARef])
       THEN pc' = "wrap" /\ outcome' = outcome
       ELSE pc' = "raised" /\ outcome' = "RuntimeError: Wavefront array must be N x N"
    /\ UNCHANGED <<heap, distances, dists, psize, energy, DEFAULT, geo_pars,
                   geo, result, i, A0, distances0, memo, others>>
    /\ UNCHANGED nonPropVars

(* lines 170-173 *)
Wrap ==
    /\ pc = "wrap"
    /\ dists' = WrapDistances(distances)
    /\ pc' = "pars"
    /\ UNCHANGED <<heap, distances, psize, energy, DEFAULT, geo_pars, geo,
                   result, i, outcome, A0, distances0, memo, others>>
    /\ UNCHANGED nonPropVars

(* lines 176-182; distances[0] of an empty sequence raises IndexError *)
MakePars ==
    /\ pc = "pars"
    /\ IF Len(dists) = 0
       THEN /\ pc' = "raised"
            /\ outcome' = "IndexError"
            /\ UNCHANGED <<geo_pars, DEFAULT>>
       ELSE /\ LET r == SetPars(DEFAULT, heap[ARef], psize, dists, energy)
               IN  geo_pars' = r.pars /\ DEFAULT' = r.default
            /\ pc' = "geo"
            /\ outcome' = outcome
    /\ UNCHANGED <<heap, distances, dists, psize, energy, geo, result, i,
                   A0, distances0, memo, others>>
    /\ UNCHANGED nonPropVars

(* line 185 *)
BuildGeo ==
    /\ pc = "geo"
    /\ geo' = GeoNew(geo_pars)
    /\ pc' = "alloc"
    /\ UNCHANGED <<heap, distances, dists, psize, energy, DEFAULT, geo_pars,
                   result, i, outcome, A0, distances0, memo, others>>
    /\ UNCHANGED nonPropVars

(* lines 188-189 *)
Alloc ==
    /\ pc = "alloc"
    /\ heap' = Append(heap, Zeros(Len(dists), heap[ARef]))
    /\ result' = Len(heap) + 1
    /\ i' = 0
    /\ pc' = "loop"
    /\ UNCHANGED <<distances, dists, psize, energy, DEFAULT, geo_pars, geo,
                   outcome, A0, distances0, memo, others>>
    /\ UNCHANGED nonPropVars

(* lines 192-195, one iteration *)
LoopStep ==
    /\ pc = "loop"
    /\ i < Len(dists)
    /\ LET g == Iterate(geo, dists[i + 1])
       IN  /\ geo' = g
           /\ heap' = [heap EXCEPT ![result].v[StoreIndex(i)] =
                           Cast(Fw(g, heap[ARef]), heap[result].dtype)]
    /\ i' = i + 1
    /\ UNCHANGED <<pc, distances, dists, psize, energy, DEFAULT, geo_pars,
                   result, outcome, A0, distances0, memo, others>>
    /\ UNCHANGED nonPropVars

(* line 197 *)
Return ==
    /\ pc = "loop"
    /\ i = Len(dists)
    /\ pc' = "done"
    /\ outcome' = "ok"
    /\ UNCHANGED <<heap, distances, dists, psize, energy, DEFAULT, geo_pars,
                   geo, result, i, A0, distances0, memo, others>>
    /\ UNCHANGED nonPropVars

(* the caller is done with the call: its arguments, the result and the     *)
(* locals of the call are dropped; module-level state stays.                *)
Release ==
    /\ pc \in {"done", "raised"}
    /\ pc' = "idle"
    /\ heap' = <<NoArray>>
    /\ distances' = Sequence(<<>>)
    /\ dists' = <<>>
    /\ psize' = 0
    /\ energy' = 0
    /\ geo_pars' = DefaultPars
    /\ geo' = NoGeo
    /\ result' = NoRef
    /\ i' = 0
    /\ outcome' = "none"
    /\ A0' = NoArray
    /\ distances0' = Sequence(<<>>)
    /\ memo' = IF pc = "done" /\ Args = ProbeArgs /\ memo = <<>>
               THEN <<heap[result]>> ELSE memo
    /\ others' = (others \/ (memo # <<>> /\ Args # ProbeArgs))
    /\ UNCHANGED DEFAULT
    /\ UNCHANGED nonPropVars

PropNext ==
    \/ Call
    \/ CheckSquare
    \/ Wrap
    \/ MakePars
    \/ BuildGeo
    \/ Alloc
    \/ LoopStep
    \/ Return
    \/ Release

--------------------------------------------------------------------------
(* shift, lines 8-21.  A 2-D array is a sequence of rows. *)

MaxSide == 3

MaxShift == 4

(* one array per shape, its elements all different *)
ShiftArrays ==
    { [r \in 1..h |-> [c \in 1..w |-> (r - 1) * w + c]] : h \in 1..MaxSide, w \in 1..MaxSide }

ShiftValues == (-MaxShift)..MaxShift

NRows(x) == Len(x)

NCols(x) == Len(x[1])

(* a bound k of a slice of an axis of length n, as Python normalises it: a  *)
(* negative bound counts from the end, and bounds are clipped to 0..n       *)
SliceBound(k, n) ==
    IF k < 0 THEN (IF k + n < 0 THEN 0 ELSE k + n)
    ELSE (IF k > n THEN n ELSE k)

(* the indices (from 1) the slices [k:] and [:k] select *)
SliceFrom(k, n) == [j \in 1..(n - SliceBound(k, n)) |-> SliceBound(k, n) + j]

SliceTo(k, n) == [j \in 1..SliceBound(k, n) |-> j]

(* numpy assigns a source of m rows (columns) to a target of n when m = n   *)
(* or m = 1; otherwise it raises ValueError                                 *)
Broadcasts(n, m) == n = m \/ m = 1

SourceIndex(I, J, r) ==
    IF Len(J) = 1 THEN J[1] ELSE J[CHOOSE j \in 1..Len(I) : I[j] = r]

(* dst[I, :] = src[J, :] *)
SetRows(dst, I, src, J) ==
    [r \in 1..NRows(dst) |->
        IF \E j \in 1..Len(I) : I[j] = r THEN src[SourceIndex(I, J, r)] ELSE dst[r]]

(* dst[:, I] = src[:, J] *)
SetCols(dst, I, src, J) ==
    [r \in 1..NRows(dst) |->
        [c \in 1..NCols(dst) |->
            IF \E j \in 1..Len(I) : I[j] = c THEN src[r][SourceIndex(I, J, c)]
            ELSE dst[r][c]]]

(* lines 14-15: a_[s:, :] = a[:-s, :] and a_[:s, :] = a[-s:, :] *)
ShiftRows(dst, src, s) ==
    LET n  == NRows(dst)
        t1 == SetRows(dst, SliceFrom(s, n), src, SliceTo(-s, n))
    IN  IF ~Broadcasts(Len(SliceFrom(s, n)), Len(SliceTo(-s, n)))
        THEN [error |-> "ValueError", v |-> dst]
        ELSE IF ~Broadcasts(Len(SliceTo(s, n)), Len(SliceFrom(-s, n)))
        THEN [error |-> "ValueError", v |-> t1]
        ELSE [error |-> "", v |-> SetRows(t1, SliceTo(s, n), src, SliceFrom(-s, n))]

(* lines 19-20: a_[:, s:] = a[:, :-s] and a_[:, :s] = a[:, -s:] *)
ShiftCols(dst, src, s) ==
    LET n  == NCols(dst)
        t1 == SetCols(dst, SliceFrom(s, n), src, SliceTo(-s, n))
    IN  IF ~Broadcasts(Len(SliceFrom(s, n)), Len(SliceTo(-s, n)))
        THEN [error |-> "ValueError", v |-> dst]
        ELSE IF ~Broadcasts(Len(SliceTo(s, n)), Len(SliceFrom(-s, n)))
        THEN [error |-> "ValueError", v |-> t1]
        ELSE [error |-> "", v |-> SetCols(t1, SliceTo(s, n), src, SliceFrom(-s, n))]

ShiftIdle ==
    /\ shiftPc = "idle"
    /\ a_caller = <<>>
    /\ a_local = <<>>
    /\ shifts = <<0, 0>>
    /\ a_ = <<>>
    /\ shiftOutcome = "none"

(* a caller calls shift(a, shifts); lines 10-11: a_ is a copy of a, and the *)
(* shifts, integers already, are what int() leaves them                     *)
ShiftCall ==
    /\ shiftPc = "idle"
    /\ \E arr \in ShiftArrays, s0 \in ShiftValues, s1 \in ShiftValues :
          /\ a_caller' = arr
          /\ a_local' = arr
          /\ a_' = arr
          /\ shifts' = <<s0, s1>>
    /\ shiftPc' = "first"
    /\ shiftOutcome' = "none"
    /\ UNCHANGED nonShiftVars

(* lines 13-16 *)
ShiftFirst ==
    /\ shiftPc = "first"
    /\ IF shifts[1] = 0
       THEN /\ shiftPc' = "second"
            /\ UNCHANGED <<a_, a_local, shiftOutcome>>
       ELSE LET res == ShiftRows(a_, a_local, shifts[1])
            IN  /\ a_' = res.v
                /\ IF res.error = ""
                   THEN /\ a_local' = res.v
                        /\ shiftPc' = "second"
                        /\ shiftOutcome' = shiftOutcome
                   ELSE /\ a_local' = a_local
                        /\ shiftPc' = "raised"
                        /\ shiftOutcome' = res.error
    /\ UNCHANGED <<a_caller, shifts>>
    /\ UNCHANGED nonShiftVars

(* lines 18-20 *)
ShiftSecond ==
    /\ shiftPc = "second"
    /\ IF shifts[2] = 0
       THEN /\ shiftPc' = "return"
            /\ UNCHANGED <<a_, shiftOutcome>>
       ELSE LET res == ShiftCols(a_, a_local, shifts[2])
            IN  /\ a_' = res.v
                /\ IF res.error = ""
                   THEN shiftPc' = "return" /\ shiftOutcome' = shiftOutcome
                   ELSE shiftPc' = "raised" /\ shiftOutcome' = res.error
    /\ UNCHANGED <<a_caller, a_local, shifts>>
    /\ UNCHANGED nonShiftVars

(* line 21 *)
ShiftReturn ==
    /\ shiftPc = "return"
    /\ shiftPc' = "done"
    /\ shiftOutcome' = "ok"
    /\ UNCHANGED <<a_caller, a_local, shifts, a_>>
    /\ UNCHANGED nonShiftVars

(* the caller is done with the call *)
ShiftRelease ==
    /\ shiftPc \in {"done", "raised"}
    /\ shiftPc' = "idle"
    /\ a_caller' = <<>>
    /\ a_local' = <<>>
    /\ shifts' = <<0, 0>>
    /\ a_' = <<>>
    /\ shiftOutcome' = "none"
    /\ UNCHANGED nonShiftVars

ShiftNext ==
    \/ ShiftCall
    \/ ShiftFirst
    \/ ShiftSecond
    \/ ShiftReturn
    \/ ShiftRelease

--------------------------------------------------------------------------
(* Numbers.  A floating point value is an exact fraction in lowest terms,   *)
(* or nan.                                                                  *)

Abs(n) == IF n < 0 THEN -n ELSE n

SetMin(S) == CHOOSE m \in S : \A n \in S : m <= n

SetMax(S) == CHOOSE m \in S : \A n \in S : m >= n

RECURSIVE GCD(_, _)
GCD(a, b) == IF b = 0 THEN a ELSE GCD(b, a % b)

NaN == [num |-> 0, den |-> 0]

Frac(n, d) == LET g == GCD(Abs(n), d) IN [num |-> n \div g, den |-> d \div g]

RECURSIVE SumSeq(_)
SumSeq(s) == IF s = <<>> THEN 0 ELSE Head(s) + SumSeq(Tail(s))

(* np.mean of a sequence of numbers; of an empty one it is nan (numpy warns *)
(* "Mean of empty slice" and raises nothing)                                *)
Mean(s) == IF Len(s) = 0 THEN NaN ELSE Frac(SumSeq(s), Len(s))

--------------------------------------------------------------------------
(* The scan object (nmutils.core.Scan) as the widget reads it: positions,   *)
(* data['1d'] (one row per position), dataAxes['1d'][0].  Lengths are       *)
(* integers; Unit is the pitch of the lattice the positions are drawn from. *)

Unit == 2 * 3

MaxPositions == 3

MaxSampling == 2

MaxChannels == 3

Coords == {0, Unit \div 2, Unit}

Steps == {Unit, 2 * Unit}

NoScan == [none |-> TRUE, positions |-> <<>>, step |-> 0, data |-> <<>>,
           xvector |-> <<>>]

nPositions(sc) == Len(sc.positions)

Xs(sc) == { sc.positions[k][1] : k \in 1..Len(sc.positions) }

Ys(sc) == { sc.positions[k][2] : k \in 1..Len(sc.positions) }

(* Scan.interpolatedMap(values, oversampling, origin='ul', method): a       *)
(* regular grid with one spacing, the scan's characteristic step divided by *)
(* the oversampling, that covers the extent of the positions; row 0 is the  *)
(* top row.  The grid points are x[r, c], y[r, c]; z holds the values       *)
(* interpolated to them.                                                    *)
Spacing(sc, smp) == sc.step \div smp

CeilDiv(a, b) == (a + b - 1) \div b

GridShape(sc, smp) ==
    << CeilDiv(SetMax(Ys(sc)) - SetMin(Ys(sc)), Spacing(sc, smp)) + 1,
       CeilDiv(SetMax(Xs(sc)) - SetMin(Xs(sc)), Spacing(sc, smp)) + 1 >>

GridCells(shape) == (1..shape[1]) \X (1..shape[2])

(* the positions for which interpolatedMap fails (DegenerateGeometryError): *)
(* no extent along x or along y, so that the bounding grid would have a     *)
(* single column or row                                                     *)
Degenerate(sc) == Cardinality(Xs(sc)) < 2 \/ Cardinality(Ys(sc)) < 2

InterpolatedMap(sc, values, smp, method) ==
    LET shape == GridShape(sc, smp)
        s     == Spacing(sc, smp)
    IN  [shape |-> shape,
         x |-> [rc \in GridCells(shape) |-> SetMin(Xs(sc)) + (rc[2] - 1) * s],
         y |-> [rc \in GridCells(shape) |-> SetMax(Ys(sc)) - (rc[1] - 1) * s],
         z |-> [method |-> method, values |-> values, oversampling |-> smp]]

--------------------------------------------------------------------------
(* XrfWidget *)

NoMask == [none |-> TRUE, cells |-> {}]

Mask(cells) == [none |-> FALSE, cells |-> cells]

NoRoi == [none |-> TRUE, from |-> 0, to |-> 0]

Roi(from, to) == [none |-> FALSE, from |-> from, to |-> to]

NoImage == [none |-> TRUE, z |-> [method |-> "", values |-> <<>>, oversampling |-> 0],
            shape |-> <<0, 0>>, scale |-> <<0, 0>>, origin |-> <<0, 0>>]

NoCurve == [x |-> <<>>, y |-> <<>>]

NothingPrinted == [text |-> "", args |-> <<>>]

(* line 86: .05 s, in units of 10 ms *)
Throttle == 5

(* lines 106-107: (np.abs(xvector - val)).argmin(), the first index of the  *)
(* minimum, counted from 0                                                  *)
ArgMinAbs(xvector, val) ==
    LET best == SetMin({ Abs(xvector[k] - val) : k \in 1..Len(xvector) })
    IN  SetMin({ k \in 1..Len(xvector) : Abs(xvector[k] - val) = best }) - 1

(* line 109: the slice [lower:upper] of one row *)
RoiWindow(row, lower, upper) ==
    IF upper <= lower THEN <<>> ELSE SubSeq(row, lower + 1, upper)

(* lines 98-109 *)
Average(sc, r) ==
    IF r.none
    THEN [p \in 1..nPositions(sc) |-> Mean(sc.data[p])]
    ELSE LET upper == ArgMinAbs(sc.xvector, r.to)
             lower == ArgMinAbs(sc.xvector, r.from)
         IN  [p \in 1..nPositions(sc) |->
                 Mean(RoiWindow(sc.data[p], lower, upper))]

PrintedByUpdateMap(sc, r) ==
    IF r.none
    THEN [text |-> "building 1D data map from the whole spectrum", args |-> <<>>]
    ELSE [text |-> "building 1D data map from channels %d to %d",
          args |-> <<ArgMinAbs(sc.xvector, r.from), ArgMinAbs(sc.xvector, r.to)>>]

(* lines 112-116: the image handed to self.map.addImage *)
MapImage(sc, average, smp) ==
    LET g == InterpolatedMap(sc, average, smp, "nearest")
    IN  [none |-> FALSE, z |-> g.z, shape |-> g.shape,
         scale |-> << Abs(g.x[<<1, 1>>] - g.x[<<1, 2>>]),
                      Abs(g.y[<<1, 1>>] - g.y[<<2, 1>>]) >>,
         origin |-> << SetMin({ g.x[rc] : rc \in GridCells(g.shape) }),
                       SetMin({ g.y[rc] : rc \in GridCells(g.shape) }) >>]

(* self.map.addImage(z, legend='data', ...): the image replaces the one     *)
(* shown; the mask tool keeps its mask only while the image keeps its shape *)
AddImage(w, img) ==
    [w EXCEPT !.image = img,
              !.mask = IF w.image.none \/ w.image.shape # img.shape THEN NoMask ELSE @]

(* lines 123-125 *)
MapFailedSilently(w, err) ==
    [w EXCEPT !.status = "Failed to build 1D data map. See terminal output.",
              !.raised = ""]

MapFailed(w, err) ==
    [w EXCEPT !.status = "Failed to build 1D data map. See terminal output.",
              !.raised = err]

(* updateMap, lines 83-125, on the widget w *)
updateMap(w) ==
    IF ~w.scanSet
    THEN [w EXCEPT !.raised = "AttributeError", !.ran = "updateMap: no attribute scan"]
    ELSE IF w.scan.none \/ w.now - w.last_map_update < Throttle
    THEN [w EXCEPT !.raised = "", !.ran = "updateMap: returned at once"]
    ELSE LET t == [w EXCEPT !.ran = "updateMap",
                            !.maskToolsVisible = FALSE,
                            !.printed = PrintedByUpdateMap(w.scan, w.roi)]
         IN  IF Degenerate(w.scan)
             THEN MapFailed(t, "DegenerateGeometryError")
             ELSE AddImage([t EXCEPT !.status = "", !.raised = "",
                                     !.last_map_update = w.now],
                           MapImage(w.scan, Average(w.scan, w.roi), w.sampling))

(* range(self.scan.nPositions) *)
AllPositions(sc) == [k \in 1..nPositions(sc) |-> k - 1]

(* line 147: the grid points the mask selects *)
MaskedPoints(g, m) == { <<g.x[rc], g.y[rc]>> : rc \in m.cells }

(* line 148 *)
PointSpacing2(g) ==
    (g.x[<<1, 2>>] - g.x[<<1, 1>>]) * (g.x[<<1, 2>>] - g.x[<<1, 1>>])
        + (g.y[<<1, 1>>] - g.y[<<2, 1>>]) * (g.y[<<1, 1>>] - g.y[<<2, 1>>])

Dist2(q, pos) ==
    (q[1] - pos[1]) * (q[1] - pos[1]) + (q[2] - pos[2]) * (q[2] - pos[2])

(* line 153 *)
MaxDist2(points, pos) == SetMax({ Dist2(q, pos) : q \in points })

MinDist2(points, pos) == SetMin({ Dist2(q, pos) : q \in points })

(* line 154 *)
QualifiesOrEqual(dist2, pointSpacing2) == dist2 <= pointSpacing2

Qualifies(dist2, pointSpacing2) == dist2 < pointSpacing2

(* line 138 *)
IsEmptyMaskOnlyNone(m) == m.none

IsEmptyMask(m) == m.none \/ m.cells = {}

(* lines 150-155 *)
MaskedPositionsOf(sc, g, m) ==
    SelectSeq(AllPositions(sc),
              LAMBDA k : Qualifies(MinDist2(MaskedPoints(g, m), sc.positions[k + 1]),
                                   PointSpacing2(g)))

(* np.mean(data[indices], axis=0): one mean per channel *)
ColumnMeans(sc, indices) ==
    [c \in 1..Len(sc.xvector) |->
        Mean([j \in 1..Len(indices) |-> sc.data[indices[j] + 1][c]])]

(* lines 132-158: the data of the curve, or the exception raised; masked0   *)
(* and printed0 are what was selected and printed before                    *)
SpectrumData(sc, mode, index, m, smp, masked0, printed0) ==
    IF mode = "ind"
    THEN IF index >= nPositions(sc)
         THEN [error |-> "IndexError", data |-> <<>>, masked |-> masked0,
               printed |-> printed0]
         ELSE [error |-> "", data |-> [c \in 1..Len(sc.xvector) |-> Frac(sc.data[index + 1][c], 1)],
               masked |-> masked0, printed |-> printed0]
    ELSE IF IsEmptyMask(m)
         THEN [error |-> "", data |-> ColumnMeans(sc, AllPositions(sc)),
               masked |-> masked0,
               printed |-> [text |-> "building 1D curve from all positions", args |-> <<>>]]
         ELSE IF Degenerate(sc)
         THEN [error |-> "DegenerateGeometryError", data |-> <<>>,
               masked |-> masked0, printed |-> printed0]
         ELSE LET g == InterpolatedMap(sc, [p \in 1..nPositions(sc) |-> 0], smp, "default")
              IN  IF ~(m.cells \subseteq GridCells(g.shape))
                  THEN [error |-> "IndexError", data |-> <<>>,
                        masked |-> masked0, printed |-> printed0]
                  ELSE IF m.cells = {}
                  THEN [error |-> "ValueError", data |-> <<>>,
                        masked |-> <<>>, printed |-> printed0]
                  ELSE LET sel == MaskedPositionsOf(sc, g, m)
                       IN  [error |-> "", data |-> ColumnMeans(sc, sel), masked |-> sel,
                            printed |-> [text |-> "building 1D curve from %d positions",
                                         args |-> <<Len(sel)>>]]

NoRead == [none |-> TRUE, index |-> 0, nPositions |-> 0]

NoLookup == [none |-> TRUE, shape |-> <<0, 0>>, oversampling |-> 0]

(* lines 165-167 *)
SpectrumFailedSilently(w, err) ==
    [w EXCEPT !.status = "Failed to build 1D curve. See terminal output.",
              !.raised = ""]

SpectrumFailed(w, err) ==
    [w EXCEPT !.status = "Failed to build 1D curve. See terminal output.",
              !.raised = err]

(* updateSpectrum, lines 127-167, on the widget w *)
updateSpectrum(w) ==
    IF ~w.scanSet
    THEN [w EXCEPT !.raised = "AttributeError", !.ran = "updateSpectrum: no attribute scan"]
    ELSE IF w.scan.none
    THEN [w EXCEPT !.raised = "", !.ran = "updateSpectrum: returned at once"]
    ELSE LET r == SpectrumData(w.scan, w.selectionMode, w.indexBox, w.mask,
                               w.sampling, w.maskedPositions, w.printed)
             t == [w EXCEPT
                     !.ran = "updateSpectrum",
                     !.indexMarker = IF w.selectionMode = "roi" THEN FALSE ELSE @,
                     !.maskedPositions = r.masked,
                     !.printed = r.printed,
                     !.indRead = IF w.selectionMode = "ind"
                                 THEN [none |-> FALSE, index |-> w.indexBox,
                                       nPositions |-> nPositions(w.scan)]
                                 ELSE @,
                     !.lookup = IF w.selectionMode = "roi" /\ ~IsEmptyMask(w.mask)
                                   /\ ~Degenerate(w.scan)
                                THEN [none |-> FALSE,
                                      shape |-> GridShape(w.scan, w.sampling),
                                      oversampling |-> w.sampling]
                                ELSE @]
         IN  IF r.error = ""
             THEN [t EXCEPT !.curve = [x |-> w.scan.xvector, y |-> r.data],
                            !.status = "", !.raised = ""]
             ELSE SpectrumFailed(t, r.error)

(* the widget as a record, and the assignment of one to the variables *)
Widget ==
    [scanSet |-> scanSet, scan |-> scan, sampling |-> sampling, mask |-> mask,
     roi |-> roi, selectionMode |-> selectionMode, indexBox |-> indexBox,
     indexMax |-> indexMax, selected_idx |-> selected_idx,
     last_map_update |-> last_map_update, now |-> now, status |-> status,
     printed |-> printed, image |-> image, curve |-> curve,
     maskToolsVisible |-> maskToolsVisible, indexMarker |-> indexMarker,
     maskedPositions |-> maskedPositions, raised |-> raised, ran |-> ran,
     indRead |-> indRead, lookup |-> lookup]

Becomes(w) ==
    /\ scanSet' = w.scanSet
    /\ scan' = w.scan
    /\ sampling' = w.sampling
    /\ mask' = w.mask
    /\ roi' = w.roi
    /\ selectionMode' = w.selectionMode
    /\ indexBox' = w.indexBox
    /\ indexMax' = w.indexMax
    /\ selected_idx' = w.selected_idx
    /\ last_map_update' = w.last_map_update
    /\ now' = w.now
    /\ status' = w.status
    /\ printed' = w.printed
    /\ image' = w.image
    /\ curve' = w.curve
    /\ maskToolsVisible' = w.maskToolsVisible
    /\ indexMarker' = w.indexMarker
    /\ maskedPositions' = w.maskedPositions
    /\ raised' = w.raised
    /\ ran' = w.ran
    /\ indRead' = w.indRead
    /\ lookup' = w.lookup

(* the widget when an event reaches it: nothing raised, nothing read yet *)
AtEvent == [Widget EXCEPT !.raised = "", !.indRead = NoRead, !.lookup = NoLookup]

(* sigROISignal and interpolBox.valueChanged are connected to updateMap *)
UpdateMap ==
    /\ Becomes(updateMap(AtEvent))
    /\ UNCHANGED nonXrfVars

(* the mask's sigChanged is connected to updateSpectrum *)
UpdateSpectrum ==
    /\ Becomes(updateSpectrum(AtEvent))
    /\ UNCHANGED nonXrfVars

(* Base.py, lines 54-62 *)
indexMarkerOn(w, on) ==
    IF ~on THEN [w EXCEPT !.indexMarker = FALSE]
    ELSE IF ~w.scanSet \/ w.scan.none THEN [w EXCEPT !.raised = "AttributeError"]
    ELSE IF w.selected_idx >= nPositions(w.scan) THEN [w EXCEPT !.raised = "IndexError"]
    ELSE [w EXCEPT !.indexMarker = TRUE]

(* a handler called through a Qt signal: an exception that leaves it does   *)
(* not reach the code that emitted the signal; its traceback is printed     *)
Slot(w) ==
    [w EXCEPT !.printed = IF w.raised = "" THEN @
                          ELSE [text |-> "Traceback", args |-> <<w.raised>>],
              !.raised = ""]

(* the mask tool's resetSelectionMask(): the mask is cleared and sigChanged *)
(* calls updateSpectrum (Base.py, line 68)                                  *)
resetSelectionMask(w) ==
    Slot(updateSpectrum([w EXCEPT !.mask = IF w.image.none THEN NoMask ELSE Mask({})]))

(* Base.py, lines 64-70 *)
selectByIndex(w, idx) ==
    LET marked == indexMarkerOn([w EXCEPT !.selectionMode = "ind", !.selected_idx = idx],
                                TRUE)
    IN  IF marked.raised # ""
        THEN [marked EXCEPT !.ran = "selectByIndex"]
        ELSE [resetSelectionMask(marked) EXCEPT !.selectionMode = "roi",
                                                !.ran = "selectByIndex"]

(* the index box is a spin box: a value above the new maximum becomes the   *)
(* maximum, and a changed value is signalled to selectByIndex               *)
setMaximum(w, m) ==
    IF w.indexBox > m
    THEN Slot(selectByIndex([w EXCEPT !.indexMax = m, !.indexBox = m], m))
    ELSE [w EXCEPT !.indexMax = m]

setValue(w, v) ==
    LET clipped == IF v > w.indexMax THEN w.indexMax ELSE IF v < 0 THEN 0 ELSE v
    IN  IF clipped = w.indexBox THEN w
        ELSE Slot(selectByIndex([w EXCEPT !.indexBox = clipped], clipped))

(* Base.py, line 73: the index (from 0) of the position nearest (x, y), the *)
(* first one of several                                                     *)
NearestPosition(sc, x, y) ==
    LET best == SetMin({ Dist2(sc.positions[k], <<x, y>>) : k \in 1..nPositions(sc) })
    IN  SetMin({ k \in 1..nPositions(sc) : Dist2(sc.positions[k], <<x, y>>) = best }) - 1

(* Base.py, lines 72-74 *)
selectByPosition(w, x, y) ==
    IF ~w.scanSet \/ w.scan.none
    THEN [w EXCEPT !.raised = "AttributeError", !.ran = "selectByPosition"]
    ELSE [setValue(w, NearestPosition(w.scan, x, y)) EXCEPT !.ran = "selectByPosition"]

(* Base.py, lines 76-78 *)
clearSelection(w) == [resetSelectionMask(w) EXCEPT !.ran = "clearSelection"]

(* XrfWidget.py, line 71 *)
SetIndexMaximumToCount(w, sc) == setMaximum(w, nPositions(sc))

SetIndexMaximum(w, sc) == setMaximum(w, nPositions(sc) - 1)

(* setScan, lines 62-73; the positions action is left unchecked *)
setScan(w, sc) ==
    LET held == [w EXCEPT !.scanSet = TRUE, !.scan = sc]
    IN  IF sc.none
        THEN [held EXCEPT !.image = NoImage, !.mask = NoMask, !.curve = NoCurve,
                          !.ran = "setScan"]
        ELSE LET mapped == updateMap(SetIndexMaximum(held, sc))
             IN  IF mapped.raised # ""
                 THEN [mapped EXCEPT !.ran = "setScan"]
                 ELSE [updateSpectrum(mapped) EXCEPT !.ran = "setScan"]

(* time passes *)
MaxElapsed == 6

StartTime == 2 * Throttle

Tick ==
    /\ \E dt \in {1, Throttle} :
          /\ now + dt <= StartTime + MaxElapsed
          /\ now' = now + dt
    /\ UNCHANGED <<scan, sampling, mask, roi, selectionMode, indexBox,
                   last_map_update, status, printed, image, curve,
                   maskToolsVisible, indexMarker, maskedPositions, raised, ran,
                   scanSet, indexMax, selected_idx, indRead, lookup>>
    /\ UNCHANGED nonXrfVars

--------------------------------------------------------------------------
(* ScanViewer.load, apps/scanViewer/main.py lines 189-250.  A scan object   *)
(* is known by its number of positions and by the loads it holds the data   *)
(* of; the three widgets are known by the scan they hold.                   *)

MaxLoads == 3

MaxFilePositions == 2

(* Scan.merge: the positions and data of the other scan are appended *)
Merged(held, other) ==
    [nPositions |-> held.nPositions + other.nPositions,
     parts |-> held.parts \o other.parts]

FailureText == "Loading failed. See terminal output for details."

(* ScanViewer.__init__, line 89 *)
ViewerIdle ==
    /\ loadPc = "idle"
    /\ objs = <<>>
    /\ viewer_scan = NoRef
    /\ comWidget = NoRef
    /\ xrdWidget = NoRef
    /\ xrfWidget = NoRef
    /\ appendBox = FALSE
    /\ scan_ = NoRef
    /\ has_xrd = FALSE
    /\ has_xrf = FALSE
    /\ fileN = 0
    /\ viewerStatus = ""
    /\ before = [scan |-> NoRef, widgets |-> <<NoRef, NoRef, NoRef>>, objs |-> <<>>]
    /\ loadResult = "none"
    /\ loads = 0

(* line 192 *)
ReleasesPreviousAlways(held, append) == held # NoRef

ReleasesPrevious(held, append) == held # NoRef /\ ~append

(* line 235 *)
StoresAlways(held) == TRUE

Stores(held) == held = NoRef

(* line 241 *)
HandsToWidgetsAny(n) == n > 0

HandsToWidgets(n) == n > 1

(* lines 248-250: the handler of load *)
LoadFails(at) ==
    /\ viewerStatus' = FailureText
    /\ loadResult' = "failed: " \o at
    /\ loadPc' = "idle"

(* the load button, lines 189-201: the user has set the append box and the  *)
(* file holds fileN positions                                               *)
LoadBegin ==
    /\ loadPc = "idle"
    /\ loads < MaxLoads
    /\ loads' = loads + 1
    /\ \E append \in BOOLEAN, n \in 1..MaxFilePositions :
          /\ appendBox' = append
          /\ fileN' = n
          /\ IF ReleasesPrevious(viewer_scan, append)
             THEN /\ comWidget' = NoRef
                  /\ xrdWidget' = NoRef
                  /\ xrfWidget' = NoRef
                  /\ viewer_scan' = NoRef
             ELSE UNCHANGED <<comWidget, xrdWidget, xrfWidget, viewer_scan>>
    /\ before' = [scan |-> viewer_scan, widgets |-> <<comWidget, xrdWidget, xrfWidget>>,
                  objs |-> objs]
    /\ viewerStatus' = "Loading data..."
    /\ scan_' = NoRef
    /\ has_xrd' = FALSE
    /\ has_xrf' = FALSE
    /\ loadResult' = "none"
    /\ loadPc' = "construct"
    /\ UNCHANGED objs
    /\ UNCHANGED nonViewerVars

(* lines 204-208: the scan class box names a subclass of Scan, or not *)
LoadConstruct ==
    /\ loadPc = "construct"
    /\ \E valid \in BOOLEAN :
          IF valid
          THEN /\ objs' = Append(objs, [nPositions |-> 0, parts |-> <<>>])
               /\ scan_' = Len(objs) + 1
               /\ loadPc' = "options"
               /\ UNCHANGED <<viewerStatus, loadResult>>
          ELSE /\ LoadFails("construct")
               /\ UNCHANGED <<objs, scan_>>
    /\ UNCHANGED <<viewer_scan, comWidget, xrdWidget, xrfWidget, appendBox,
                   has_xrd, has_xrf, fileN, before, loads>>
    /\ UNCHANGED nonViewerVars

(* line 211: gatherOptions evaluates the text of the option fields *)
LoadOptions ==
    /\ loadPc = "options"
    /\ \E ok \in BOOLEAN :
          IF ok
          THEN loadPc' = "xrd" /\ UNCHANGED <<viewerStatus, loadResult>>
          ELSE LoadFails("options")
    /\ UNCHANGED <<objs, viewer_scan, comWidget, xrdWidget, xrfWidget, appendBox,
                   scan_, has_xrd, has_xrf, fileN, before, loads>>
    /\ UNCHANGED nonViewerVars

(* what addData leaves of the new scan when it has loaded the data *)
Loaded(n, id) == [nPositions |-> n, parts |-> <<id>>]

(* lines 214-223 *)
LoadXrd ==
    /\ loadPc = "xrd"
    /\ \E how \in {"loaded", "MemoryError", "AttributeError", "IOError"} :
          /\ has_xrd' = (how = "loaded")
          /\ objs' = IF how = "loaded"
                     THEN [objs EXCEPT ![scan_] = Loaded(fileN, loads)] ELSE objs
          /\ IF how = "IOError"
             THEN LoadFails("xrd")
             ELSE loadPc' = "xrf" /\ UNCHANGED <<viewerStatus, loadResult>>
    /\ UNCHANGED <<viewer_scan, comWidget, xrdWidget, xrfWidget, appendBox,
                   scan_, has_xrf, fileN, before, loads>>
    /\ UNCHANGED nonViewerVars

(* lines 226-232 *)
LoadXrf ==
    /\ loadPc = "xrf"
    /\ \E how \in {"loaded", "AttributeError", "IOError"} :
          /\ has_xrf' = (how = "loaded")
          /\ objs' = IF how = "loaded"
                     THEN [objs EXCEPT ![scan_] = Loaded(fileN, loads)] ELSE objs
          /\ IF how = "IOError"
             THEN LoadFails("xrf")
             ELSE loadPc' = "store" /\ UNCHANGED <<viewerStatus, loadResult>>
    /\ UNCHANGED <<viewer_scan, comWidget, xrdWidget, xrfWidget, appendBox,
                   scan_, has_xrd, fileN, before, loads>>
    /\ UNCHANGED nonViewerVars

(* lines 235-238: merge changes the held scan object in place; when it      *)
(* raises it has done so before or after changing it                        *)
LoadStore ==
    /\ loadPc = "store"
    /\ IF Stores(viewer_scan)
       THEN /\ viewer_scan' = scan_
            /\ loadPc' = "widgets"
            /\ UNCHANGED <<objs, viewerStatus, loadResult>>
       ELSE /\ viewer_scan' = viewer_scan
            /\ \E how \in {"merged", "raised before", "raised after"} :
                  /\ objs' = IF how = "raised before" THEN objs
                             ELSE [objs EXCEPT ![viewer_scan] = Merged(@, objs[scan_])]
                  /\ IF how = "merged"
                     THEN loadPc' = "widgets" /\ UNCHANGED <<viewerStatus, loadResult>>
                     ELSE LoadFails("merge")
    /\ UNCHANGED <<comWidget, xrdWidget, xrfWidget, appendBox, scan_, has_xrd,
                   has_xrf, fileN, before, loads>>
    /\ UNCHANGED nonViewerVars

(* lines 241-247: a widget holds the scan from the first line of setScan    *)
(* on (XrfWidget.setScan, line 63) and may raise while it rebuilds its      *)
(* plots; raisedBy names the one that does                                  *)
LoadWidgets ==
    /\ loadPc = "widgets"
    /\ \E raisedBy \in {"none", "com", "xrd", "xrf"} :
          LET hands  == HandsToWidgets(objs[viewer_scan].nPositions)
              toCom  == hands /\ has_xrd
              toXrd  == toCom /\ raisedBy # "com"
              toXrf  == hands /\ has_xrf /\ ~(has_xrd /\ raisedBy \in {"com", "xrd"})
              failed == \/ toCom /\ raisedBy = "com"
                        \/ toXrd /\ raisedBy = "xrd"
                        \/ toXrf /\ raisedBy = "xrf"
          IN  /\ comWidget' = IF toCom THEN viewer_scan ELSE comWidget
              /\ xrdWidget' = IF toXrd THEN viewer_scan ELSE xrdWidget
              /\ xrfWidget' = IF toXrf THEN viewer_scan ELSE xrfWidget
              /\ IF failed
                 THEN LoadFails("widgets")
                 ELSE /\ viewerStatus' = ""
                      /\ loadResult' = "ok"
                      /\ loadPc' = "idle"
    /\ UNCHANGED <<objs, viewer_scan, appendBox, scan_, has_xrd, has_xrf, fileN,
                   before, loads>>
    /\ UNCHANGED nonViewerVars

--------------------------------------------------------------------------
(* Specifications *)

(* XrfWidget.__init__, lines 30-60 *)
XrfConstructed ==
    /\ scan = NoScan
    /\ sampling = 1
    /\ mask = NoMask
    /\ roi = NoRoi
    /\ selectionMode = "roi"
    /\ indexBox = 0
    /\ last_map_update = 0
    /\ now = StartTime
    /\ status = ""
    /\ printed = NothingPrinted
    /\ image = NoImage
    /\ curve = NoCurve
    /\ maskToolsVisible = FALSE
    /\ indexMarker = FALSE
    /\ maskedPositions = <<>>
    /\ raised = ""
    /\ ran = ""
    /\ scanSet = FALSE
    (* the spin box's own default maximum, here the largest index drawn *)
    /\ indexMax = MaxPositions - 1
    /\ selected_idx = 0
    /\ indRead = NoRead
    /\ lookup = NoLookup

Init == PropInit /\ XrfConstructed /\ ShiftIdle /\ ViewerIdle

Next == PropNext

(* propagateNearfield called again and again *)
Spec == Init /\ [][Next]_vars

(* position sequences whose extent is positive along both axes (the grid    *)
(* has at least two rows and two columns).  updateSpectrum treats every     *)
(* position index on its own, so one order per set of positions is drawn:   *)
(* by x, then by y.                                                         *)
Before(p, q) == p[1] < q[1] \/ (p[1] = q[1] /\ p[2] < q[2])

PositionSeqs ==
    { ps \in UNION { [1..n -> Coords \X Coords] : n \in 2..MaxPositions } :
        /\ \A j \in 1..(Len(ps) - 1) : Before(ps[j], ps[j + 1])
        /\ \E j, k \in 1..Len(ps) : ps[j][1] # ps[k][1]
        /\ \E j, k \in 1..Len(ps) : ps[j][2] # ps[k][2] }

(* the scans of the spectrum specification: one channel per position *)
SpectrumScans ==
    { [none |-> FALSE, positions |-> ps, step |-> st,
       data |-> [p \in 1..Len(ps) |-> <<p>>], xvector |-> <<0>>] :
        ps \in PositionSeqs, st \in Steps }

(* the masks a user draws on a grid of this shape: up to two cells, or all  *)
MasksOn(shape) ==
    { NoMask } \cup { Mask(GridCells(shape)) }
        \cup { Mask(c) : c \in { d \in SUBSET GridCells(shape) : Cardinality(d) <= 2 } }

(* a widget that shows a scan (after setScan) on which the user has drawn a *)
(* mask                                                                     *)
SpectrumInit ==
    /\ PropInit
    /\ ShiftIdle
    /\ ViewerIdle
    /\ scan \in SpectrumScans
    /\ sampling \in 1..MaxSampling
    /\ mask \in MasksOn(GridShape(scan, sampling))
    /\ roi = NoRoi
    /\ selectionMode = "roi"
    /\ indexBox = 0
    /\ last_map_update = StartTime
    /\ now = StartTime
    /\ status = ""
    /\ printed = [text |-> "building 1D curve from all positions", args |-> <<>>]
    /\ image = MapImage(scan, Average(scan, NoRoi), sampling)
    /\ curve = [x |-> scan.xvector, y |-> ColumnMeans(scan, AllPositions(scan))]
    /\ maskToolsVisible = TRUE
    /\ indexMarker = FALSE
    /\ maskedPositions = <<>>
    /\ raised = ""
    /\ ran = ""
    /\ scanSet = TRUE
    /\ indexMax = nPositions(scan) - 1
    /\ selected_idx = 0
    /\ indRead = NoRead
    /\ lookup = NoLookup

SpectrumNext == UpdateSpectrum

(* the mask tool signals a changed mask: updateSpectrum runs *)
SpecSpectrum == SpectrumInit /\ [][SpectrumNext]_vars

ShiftInit == PropInit /\ XrfConstructed /\ ShiftIdle /\ ViewerIdle

(* shift called again and again *)
SpecShift == ShiftInit /\ [][ShiftNext]_vars

(* the rows of data['1d']: the first row is drawn, the others follow it *)
ChannelValues == {0, 1, 3}

Axis(n) == [c \in 1..n |-> 2 * (c - 1)]

MapScans ==
    { [none |-> FALSE, positions |-> << <<0, 0>>, <<Unit, Unit>> >>, step |-> Unit,
       data |-> << row, [c \in 1..n |-> row[c] + c] >>, xvector |-> Axis(n)] :
        n \in {MaxChannels}, row \in [1..MaxChannels -> ChannelValues] }

Rois(n) ==
    { NoRoi } \cup { Roi(f, t) : f \in -1..(2 * n - 1), t \in -1..(2 * n - 1) }

(* a widget that shows a scan on which the user has set a ROI on the        *)
(* spectrum                                                                 *)
MapInit ==
    /\ PropInit
    /\ ShiftIdle
    /\ ViewerIdle
    /\ scan \in MapScans
    /\ sampling \in 1..MaxSampling
    /\ mask = NoMask
    /\ roi \in { r \in Rois(Len(scan.xvector)) : r.from <= r.to }
    /\ selectionMode = "roi"
    /\ indexBox = 0
    /\ last_map_update = StartTime
    /\ now = StartTime
    /\ status = ""
    /\ printed = [text |-> "building 1D curve from all positions", args |-> <<>>]
    /\ image = MapImage(scan, Average(scan, NoRoi), sampling)
    /\ curve = [x |-> scan.xvector, y |-> ColumnMeans(scan, AllPositions(scan))]
    /\ maskToolsVisible = TRUE
    /\ indexMarker = FALSE
    /\ maskedPositions = <<>>
    /\ raised = ""
    /\ ran = ""
    /\ scanSet = TRUE
    /\ indexMax = nPositions(scan) - 1
    /\ selected_idx = 0
    /\ indRead = NoRead
    /\ lookup = NoLookup

MapNext == UpdateMap \/ Tick

(* the ROI widget signals a changed ROI: updateMap runs *)
SpecMap == MapInit /\ [][MapNext]_vars

(* the scans the viewer hands to the widget: MaxPositions positions on a    *)
(* diagonal, and two positions on one line of the lattice, for which no     *)
(* grid exists.  Position p has the spectrum <<p, 2p>>.                     *)
ScanOf(ps, st) ==
    [none |-> FALSE, positions |-> ps, step |-> st,
     data |-> [p \in 1..Len(ps) |-> <<p, 2 * p>>], xvector |-> <<0, 2>>]

WidgetScans ==
    { ScanOf([k \in 1..MaxPositions |-> <<(k - 1) * (Unit \div 2), (k - 1) * (Unit \div 2)>>],
             2 * Unit),
      ScanOf(<< <<0, 0>>, <<Unit, 0>> >>, Unit) }

(* the throttle interval passes *)
Pause ==
    /\ now + Throttle <= StartTime + MaxElapsed
    /\ now' = now + Throttle
    /\ UNCHANGED <<scan, sampling, mask, roi, selectionMode, indexBox,
                   last_map_update, status, printed, image, curve,
                   maskToolsVisible, indexMarker, maskedPositions, raised, ran,
                   scanSet, indexMax, selected_idx, indRead, lookup>>
    /\ UNCHANGED nonXrfVars

(* the viewer calls setScan *)
SetScan ==
    /\ \E sc \in WidgetScans \cup {NoScan} : Becomes(setScan(AtEvent, sc))
    /\ UNCHANGED nonXrfVars

(* the user changes the oversampling box *)
ChangeSampling ==
    /\ \E v \in (1..MaxSampling) \ {sampling} :
          Becomes(updateMap([AtEvent EXCEPT !.sampling = v]))
    /\ UNCHANGED nonXrfVars

(* the user changes the ROI of the spectrum *)
ChangeRoi ==
    /\ \E r \in { NoRoi, Roi(0, 2) } \ {roi} : Becomes(updateMap([AtEvent EXCEPT !.roi = r]))
    /\ UNCHANGED nonXrfVars

(* the user opens the mask tools and draws a mask on the image shown *)
DrawMask ==
    /\ ~image.none
    /\ \E m \in { Mask({<<1, 1>>}), Mask(GridCells(image.shape)) } \ {mask} :
          Becomes(updateSpectrum([AtEvent EXCEPT !.mask = m, !.maskToolsVisible = TRUE]))
    /\ UNCHANGED nonXrfVars

(* the user changes the index box *)
ChangeIndex ==
    /\ \E v \in (0..indexMax) \ {indexBox} :
          Becomes(selectByIndex([AtEvent EXCEPT !.indexBox = v], v))
    /\ UNCHANGED nonXrfVars

(* the user clicks on the map, at one of two corners of the lattice *)
Click ==
    /\ \E c \in {0, Unit} : Becomes(selectByPosition(AtEvent, c, c))
    /\ UNCHANGED nonXrfVars

(* the user clears the selection *)
ClearSelection ==
    /\ Becomes(clearSelection(AtEvent))
    /\ UNCHANGED nonXrfVars

WidgetInit == PropInit /\ XrfConstructed /\ ShiftIdle /\ ViewerIdle

WidgetNext ==
    \/ SetScan
    \/ ChangeSampling
    \/ ChangeRoi
    \/ DrawMask
    \/ ChangeIndex
    \/ Click
    \/ ClearSelection
    \/ Pause

(* the widget from its construction on, driven by the viewer and the user *)
SpecWidget == WidgetInit /\ [][WidgetNext]_vars

ViewerInit == PropInit /\ XrfConstructed /\ ShiftIdle /\ ViewerIdle

ViewerNext ==
    \/ LoadBegin
    \/ LoadConstruct
    \/ LoadOptions
    \/ LoadXrd
    \/ LoadXrf
    \/ LoadStore
    \/ LoadWidgets

(* the user loads one scan after the other *)
SpecViewer == ViewerInit /\ [][ViewerNext]_vars

--------------------------------------------------------------------------
(* Properties of propagateNearfield *)

NotSquare(a) == Len(a.shape) # 2 \/ a.shape[1] # a.shape[2]

(* the plane of field a propagated to distance d with pixel size ps, array  *)
(* size a.shape[1] and energy en                                            *)
PropagatedTo(a, ps, d, en) ==
    Plane("fw", a.v[1].src,
          [distance |-> d, energy |-> en, psize |-> ps, shape |-> a.shape[1]])

(* C1: for a square N x N complex field and a sequence of k >= 1 distances  *)
(* the call returns, the result holds exactly k planes, its shape is        *)
(* k x N x N, and plane j is the input propagated to distances[j], in the   *)
(* order of the input, duplicates kept.                                     *)
C1_OneFieldPerDistanceInOrder ==
    ( /\ pc \in {"done", "raised"}
      /\ ~NotSquare(A0)
      /\ A0.dtype = "complex128"
      /\ distances0.kind = "seq"
      /\ Len(distances0.s) >= 1 )
    => /\ pc = "done"
       /\ outcome = "ok"
       /\ result # NoRef
       /\ heap[result].shape = <<Len(distances0.s), A0.shape[1], A0.shape[1]>>
       /\ Len(heap[result].v) = Len(distances0.s)
       /\ \A j \in 1..Len(distances0.s) :
             heap[result].v[j] = PropagatedTo(A0, psize, distances0.s[j], energy)

(* a returned call with a repeated distance and two different ones *)
C1_Witness ==
    /\ pc = "done"
    /\ A0.shape = <<MaxN, MaxN>>
    /\ A0.dtype = "complex128"
    /\ distances0.kind = "seq"
    /\ Len(distances0.s) = MaxDistances
    /\ distances0.s[1] > distances0.s[MaxDistances]
    /\ heap[result].v[MaxDistances].k.distance = distances0.s[MaxDistances]

(* what a call of its own with the one distance d returns as its only plane *)
SingleCall(a, ps, d, en) ==
    LET pars == SetPars(DefaultPars, a, ps, <<d>>, en).pars
        g    == Iterate(GeoNew(pars), d)
    IN  Cast(Fw(g, a), Zeros(1, a).dtype)

(* C2: plane j of a multi-distance call equals the plane a single-distance  *)
(* call with distances[j] returns, and after each iteration the geometry    *)
(* object is what a fresh one built for that distance alone would be.       *)
C2_EachDistanceIndependent ==
    /\ pc = "done" =>
         \A j \in 1..Len(dists) :
            heap[result].v[j] = SingleCall(A0, psize, dists[j], energy)
    /\ (pc = "loop" /\ i > 0) =>
         geo = Iterate(GeoNew(SetPars(DefaultPars, A0, psize, <<dists[i]>>, energy).pars),
                       dists[i])

(* a returned call whose last distance differs from its first *)
C2_Witness ==
    /\ pc = "done"
    /\ Len(dists) = MaxDistances
    /\ dists[1] # dists[MaxDistances]
    /\ geo.kernel.distance = dists[MaxDistances]
    /\ heap[result].v[1].k.distance = dists[1]

(* C3: with a field that is not square (or not 2-dimensional) the call ends *)
(* in the "must be N x N" error straight after the check: no parameters are *)
(* set, no propagator is built and no result array is allocated.            *)
C3_ShapeErrorBeforeAnyWork ==
    (pc # "idle" /\ NotSquare(A0))
    => /\ pc \in {"check", "raised"}
       /\ pc = "raised" => outcome = "RuntimeError: Wavefront array must be N x N"
       /\ geo = NoGeo
       /\ geo_pars = DefaultPars
       /\ result = NoRef
       /\ Len(heap) = 1

(* the error raised for a 2-dimensional array that is not square *)
C3_Witness ==
    /\ pc = "raised"
    /\ Len(A0.shape) = 2
    /\ A0.shape[1] # A0.shape[2]
    /\ outcome = "RuntimeError: Wavefront array must be N x N"

(* C4: a call with a non-positive energy or pixel size (and otherwise valid *)
(* arguments) ends in ParameterError and never builds a propagator.         *)
C4_ParameterErrorOnNonPositive ==
    ( /\ pc # "idle"
      /\ ~NotSquare(A0)
      /\ Len(WrapDistances(distances0)) >= 1
      /\ (energy <= 0 \/ psize <= 0) )
    => /\ ~geo.built
       /\ pc # "done"
       /\ pc = "raised" => outcome = "ParameterError"

(* C5: the caller's array and distances object are never modified, the      *)
(* result is an array of its own, the module-level DEFAULT parameters are   *)
(* never modified, and a later call with the arguments of an earlier one    *)
(* returns the same result.                                                 *)
C5_NoSideEffects ==
    /\ pc # "idle" => (heap[ARef] = A0 /\ distances = distances0)
    /\ DEFAULT = DefaultPars
    /\ result # NoRef => result # ARef
    /\ (pc = "done" /\ Args = ProbeArgs /\ memo # <<>>) => heap[result] = memo[1]

(* a second call with the probe arguments has returned, with other calls in *)
(* between                                                                  *)
C5_Witness ==
    /\ pc = "done"
    /\ Args = ProbeArgs
    /\ memo # <<>>
    /\ others
    /\ heap[result] = memo[1]

(* C15: a scalar distance d is treated as the sequence [d]: the call        *)
(* returns one field, the input propagated to d; with an empty sequence of  *)
(* distances the call ends in an error and returns no result.               *)
C15_ScalarIsOneDistanceAndEmptyFails ==
    /\ ( /\ pc \in {"done", "raised"}
         /\ ~NotSquare(A0)
         /\ distances0.kind = "scalar" )
       => /\ pc = "done"
          /\ dists = <<distances0.d>>
          /\ heap[result].shape = <<1, A0.shape[1], A0.shape[1]>>
          /\ Len(heap[result].v) = 1
          /\ heap[result].v[1] =
                Cast(PropagatedTo(A0, psize, distances0.d, energy), A0.dtype)
    /\ ( /\ pc \notin {"idle", "check", "wrap", "pars"}
         /\ ~NotSquare(A0)
         /\ distances0 = Sequence(<<>>) )
       => /\ pc = "raised"
          /\ outcome = "IndexError"
          /\ result = NoRef
          /\ ~geo.built

(* a call with a scalar distance has returned its one field *)
C15_Witness ==
    /\ pc = "done"
    /\ distances0.kind = "scalar"
    /\ distances0.d = -1
    /\ Len(heap[result].v) = 1
    /\ heap[result].v[1].k.distance = -1

--------------------------------------------------------------------------
(* Properties of the widget's handlers *)

MapFailureText == "Failed to build 1D data map. See terminal output."

CurveFailureText == "Failed to build 1D curve. See terminal output."

C14_IndexReadIsValid ==
    ~indRead.none => (0 <= indRead.index /\ indRead.index <= indRead.nPositions - 1)

(* setScan with a scan of fewer positions than the index box showed: the    *)
(* spectrum was read at the new last index                                  *)
C14_Witness ==
    /\ ran = "setScan"
    /\ ~indRead.none
    /\ indRead.nPositions < MaxPositions
    /\ indRead.index = indRead.nPositions - 1
    /\ indexBox = nPositions(scan) - 1

(* C17: between user events selectionMode is 'roi', and a selectByIndex     *)
(* that returned has shown the spectrum of the position idx.                *)
C17_SelectionModeIsRoiBetweenEvents ==
    /\ selectionMode = "roi"
    /\ (ran = "selectByIndex" /\ raised = "")
          => curve.y = [c \in 1..Len(scan.xvector) |-> Frac(scan.data[selected_idx + 1][c], 1)]

(* C18: after setScan with a scan, or a change of the oversampling or of    *)
(* the ROI, has returned normally, the map on display is the map of the     *)
(* widget's scan at the current oversampling and ROI.                       *)
C18_MapIsRebuilt ==
    ( /\ ran \in {"setScan", "updateMap", "updateMap: returned at once"}
      /\ raised = ""
      /\ ~scan.none
      /\ ~Degenerate(scan) )
    => image = MapImage(scan, Average(scan, roi), sampling)

(* C19: the grid updateSpectrum looks the masked positions up on is the     *)
(* grid of the map on display: same shape (the shape of the mask), same     *)
(* oversampling.                                                            *)
C19_LookupOnDisplayedGrid ==
    ~lookup.none
    => /\ ~image.none
       /\ lookup.shape = image.shape
       /\ lookup.oversampling = image.z.oversampling

HasNoScan == ~scanSet \/ scan.none

(* C21: in every state in which the widget has no scan (right after         *)
(* construction, or after setScan(None)), a change of the oversampling box  *)
(* or of the spectrum ROI, which calls updateMap, does nothing: no error,   *)
(* no status output, no change of the map or of the curve.                  *)
C21_UpdatesWithoutScanDoNothing ==
    [][ (HasNoScan /\ (ChangeSampling \/ ChangeRoi))
        => /\ raised' = ""
           /\ status' = status
           /\ image' = image
           /\ curve' = curve ]_vars

--------------------------------------------------------------------------
(* Properties of ScanViewer.load *)

HoldsAtLeastTwo(ref) == ref = NoRef \/ objs[ref].nPositions >= 2

(* C12: at every point of every sequence of loads, with or without append,  *)
(* a widget holds no scan or a scan of at least 2 positions.                *)
C12_WidgetsHoldAtLeastTwoPositions ==
    /\ HoldsAtLeastTwo(comWidget)
    /\ HoldsAtLeastTwo(xrdWidget)
    /\ HoldsAtLeastTwo(xrfWidget)

(* two loads of one position each, the second appended: the first was not   *)
(* handed to the widgets, the merged scan of two positions is               *)
C12_Witness ==
    /\ loadPc = "idle"
    /\ loadResult = "ok"
    /\ xrfWidget # NoRef
    /\ objs[xrfWidget].nPositions = 2
    /\ Len(objs[xrfWidget].parts) = 2

LoadSucceeded == loadPc = "idle" /\ loadResult = "ok"

AllWidgetsReleased == comWidget = NoRef /\ xrdWidget = NoRef /\ xrfWidget = NoRef

(* C13: after a successful load the held scan is the previous scan object   *)
(* merged with the new one when a scan was held and the append box is       *)
(* checked, and the new scan alone otherwise; and a previous scan that is   *)
(* not appended to has been released from the three widgets and from the    *)
(* viewer when the new scan object is about to be constructed.              *)
C13_HeldScanAfterLoad ==
    /\ LoadSucceeded =>
          IF before.scan # NoRef /\ appendBox
          THEN /\ viewer_scan = before.scan
               /\ objs[viewer_scan].nPositions =
                     before.objs[before.scan].nPositions + objs[scan_].nPositions
               /\ objs[viewer_scan].parts =
                     before.objs[before.scan].parts \o objs[scan_].parts
          ELSE /\ viewer_scan = scan_
               /\ scan_ = Len(before.objs) + 1
               /\ \A j \in 1..Len(objs[viewer_scan].parts) :
                     objs[viewer_scan].parts[j] = loads
    /\ (loadPc = "construct" /\ before.scan # NoRef /\ ~appendBox) =>
          /\ AllWidgetsReleased
          /\ viewer_scan = NoRef
          /\ scan_ = NoRef
          /\ objs = before.objs

(* a load appended to a held scan has succeeded *)
C13_Witness ==
    /\ LoadSucceeded
    /\ appendBox
    /\ before.scan # NoRef
    /\ viewer_scan = before.scan
    /\ Len(objs[viewer_scan].parts) = 2

FailedBeforeMerge ==
    /\ loadPc = "idle"
    /\ loadResult \in {"failed: construct", "failed: options", "failed: xrd", "failed: xrf"}

FailedInMerge == loadPc = "idle" /\ loadResult = "failed: merge"

ViewerAsBefore ==
    /\ viewer_scan = before.scan
    /\ <<comWidget, xrdWidget, xrfWidget>> = before.widgets
    /\ SubSeq(objs, 1, Len(before.objs)) = before.objs

(* C20 as stated: a load that fails (invalid scan class, an error while     *)
(* gathering options or adding data, or an error in merge) leaves the       *)
(* viewer as it was before the call: the held scan is still held and the    *)
(* widgets still show it; only the status message has changed.              *)
C20_FailedLoadChangesNothing ==
    (FailedBeforeMerge \/ FailedInMerge)
    => /\ ViewerAsBefore
       /\ viewerStatus = FailureText

(* C20 as amended: after a load that fails before the merge the status is   *)
(* the failure message and, when no scan was held or the append box is      *)
(* checked, the viewer is as it was before the call; when a scan was held   *)
(* and the append box is not checked, that scan has been released from the  *)
(* viewer and from the three widgets.  After an error in merge the viewer   *)
(* and the widgets hold the scan objects they held before.                  *)
C20_FailedLoadKeepsOrReleases ==
    /\ FailedBeforeMerge =>
          /\ viewerStatus = FailureText
          /\ IF before.scan # NoRef /\ ~appendBox
             THEN viewer_scan = NoRef /\ AllWidgetsReleased
             ELSE ViewerAsBefore
    /\ FailedInMerge =>
          /\ viewerStatus = FailureText
          /\ viewer_scan = before.scan
          /\ <<comWidget, xrdWidget, xrfWidget>> = before.widgets

(* a load without append has failed at the scan class: the scan the xrf     *)
(* widget showed is gone                                                    *)
C20_Witness ==
    /\ loadPc = "idle"
    /\ loadResult = "failed: construct"
    /\ ~appendBox
    /\ before.scan # NoRef
    /\ before.widgets[3] = before.scan
    /\ viewer_scan = NoRef
    /\ xrfWidget = NoRef

--------------------------------------------------------------------------
(* Properties of shift *)

(* the array x shifted periodically by s0 rows and s1 columns *)
Periodic(x, s0, s1) ==
    [r \in 1..NRows(x) |->
        [c \in 1..NCols(x) |->
            x[((r - 1 - s0) % NRows(x)) + 1][((c - 1 - s1) % NCols(x)) + 1]]]

(* C16: for every pair of integer shifts, negative ones and those of a      *)
(* magnitude of at least the array size included, the call returns r with   *)
(* r[i][j] = a[(i - s0) mod H][(j - s1) mod W], and a is left as it was.    *)
C16_ShiftIsPeriodic ==
    /\ shiftPc \notin {"idle", "first", "second", "return"} => shiftPc = "done"
    /\ shiftPc = "done" => a_ = Periodic(a_caller, shifts[1], shifts[2])

--------------------------------------------------------------------------
(* Properties of XrfWidget.updateSpectrum *)

(* the grid updateSpectrum recomputes, and its spacings along x and y *)
TheGrid == InterpolatedMap(scan, <<>>, sampling, "default")

GridDx == TheGrid.x[<<1, 2>>] - TheGrid.x[<<1, 1>>]

GridDy == TheGrid.y[<<1, 1>>] - TheGrid.y[<<2, 1>>]

(* position index k (from 0) has a masked grid point at a squared distance  *)
(* below / of exactly the limit                                             *)
HasMaskedPointBelow(k, limit) ==
    \E rc \in mask.cells :
       Dist2(<<TheGrid.x[rc], TheGrid.y[rc]>>, scan.positions[k + 1]) < limit

NearestMaskedPointAt(k, limit) ==
    /\ ~HasMaskedPointBelow(k, limit)
    /\ \E rc \in mask.cells :
          Dist2(<<TheGrid.x[rc], TheGrid.y[rc]>>, scan.positions[k + 1]) = limit

IsSelected(k) == \E j \in 1..Len(maskedPositions) : maskedPositions[j] = k

LookupRan ==
    /\ ran = "updateSpectrum"
    /\ raised = ""
    /\ selectionMode = "roi"
    /\ ~mask.none
    /\ mask.cells # {}

(* C6 as stated: position index k is selected iff the squared distance to   *)
(* the nearest masked grid point is strictly less than the squared grid     *)
(* spacing.                                                                 *)
C6_SelectedBelowSquaredSpacing ==
    LookupRan =>
       \A k \in 0..(nPositions(scan) - 1) :
          IsSelected(k) <=> HasMaskedPointBelow(k, GridDx * GridDx)

(* C6 as amended: position index k is selected iff the squared distance to  *)
(* the nearest masked grid point is strictly less than the sum of the       *)
(* squared grid spacings along x and along y (the squared diagonal of one   *)
(* grid cell); a position at exactly that distance is not selected.         *)
C6_SelectedBelowSquaredCellDiagonal ==
    LookupRan =>
       \A k \in 0..(nPositions(scan) - 1) :
          IsSelected(k) <=> HasMaskedPointBelow(k, GridDx * GridDx + GridDy * GridDy)

(* one position exactly a cell diagonal from its nearest masked point and   *)
(* left out, another one selected                                           *)
C6_Witness ==
    /\ LookupRan
    /\ \E k \in 0..(nPositions(scan) - 1) :
          /\ NearestMaskedPointAt(k, GridDx * GridDx + GridDy * GridDy)
          /\ ~IsSelected(k)
    /\ \E k \in 0..(nPositions(scan) - 1) :
          /\ IsSelected(k)
          /\ ~HasMaskedPointBelow(k, GridDx * GridDx)

(* C7: with a mask that is set on every cell of the grid interpolated from  *)
(* the positions, every position index 0..nPositions-1 is selected.         *)
C7_FullMaskSelectsEveryPosition ==
    (LookupRan /\ mask.cells = GridCells(GridShape(scan, sampling)))
    => maskedPositions = [k \in 1..nPositions(scan) |-> k - 1]

(* the lookup ran with a full mask on an oversampled grid *)
C7_Witness ==
    /\ LookupRan
    /\ mask.cells = GridCells(GridShape(scan, sampling))
    /\ sampling = MaxSampling
    /\ Len(maskedPositions) = MaxPositions

NoPositionQualifies ==
    \A k \in 0..(nPositions(scan) - 1) :
       ~HasMaskedPointBelow(k, GridDx * GridDx + GridDy * GridDy)

UpdateSpectrumRanInRoiMode == ran = "updateSpectrum" /\ selectionMode = "roi"

(* C8 as stated: when the mask has no set cells, or has set cells but no    *)
(* position qualifies, no position is selected: the curve is the mean over  *)
(* no position, and nothing is raised.                                      *)
C8_EmptySelectionForEmptyMask ==
    ( /\ UpdateSpectrumRanInRoiMode
      /\ (mask.none \/ mask.cells = {} \/ NoPositionQualifies) )
    => /\ raised = ""
       /\ curve.y = [c \in 1..Len(scan.xvector) |-> NaN]

(* C8 as amended: when the mask has set cells but no position qualifies,    *)
(* the selection is empty (the curve is the mean over no position and       *)
(* nothing is raised); when the mask is None or has no set cell, the lookup *)
(* is skipped and the curve is the mean over all positions.                 *)
C8_EmptySelectionOnlyForMissedMask ==
    UpdateSpectrumRanInRoiMode =>
       /\ (mask.none \/ mask.cells = {}) =>
             /\ raised = ""
             /\ printed.text = "building 1D curve from all positions"
             /\ curve.y = [c \in 1..Len(scan.xvector) |->
                              Mean([p \in 1..nPositions(scan) |-> scan.data[p][c]])]
       /\ (~mask.none /\ mask.cells # {} /\ NoPositionQualifies) =>
             /\ raised = ""
             /\ maskedPositions = <<>>
             /\ printed.args = <<0>>
             /\ curve.y = [c \in 1..Len(scan.xvector) |-> NaN]

(* a mask with set cells that selects no position *)
C8_Witness ==
    /\ UpdateSpectrumRanInRoiMode
    /\ mask.cells # {}
    /\ NoPositionQualifies
    /\ maskedPositions = <<>>
    /\ curve.y[1] = NaN

--------------------------------------------------------------------------
(* Properties of XrfWidget.updateMap *)

(* the axis index (from 0) nearest val, the lowest one on a tie *)
NearestIndex(val) ==
    CHOOSE k \in 0..(Len(scan.xvector) - 1) :
       \A j \in 0..(Len(scan.xvector) - 1) :
          \/ Abs(scan.xvector[k + 1] - val) < Abs(scan.xvector[j + 1] - val)
          \/ Abs(scan.xvector[k + 1] - val) = Abs(scan.xvector[j + 1] - val) /\ k <= j

(* the mean of row p over the columns lo..hi, both included *)
InclusiveMean(p, lo, hi) ==
    Mean([c \in 1..(hi - lo + 1) |-> scan.data[p][lo + c]])

(* C9: the map is built from, per position, the mean of its row over the    *)
(* columns from the index nearest lowerval to the index nearest upperval,   *)
(* the latter included; with no ROI from the mean over the whole row.       *)
C9_RoiWindowIncludesUpper ==
    ran = "updateMap" =>
       /\ raised = ""
       /\ ~roi.none =>
             /\ printed.args = <<NearestIndex(roi.from), NearestIndex(roi.to)>>
             /\ image.z.values =
                   [p \in 1..nPositions(scan) |->
                       InclusiveMean(p, NearestIndex(roi.from), NearestIndex(roi.to))]
       /\ roi.none =>
             image.z.values =
                [p \in 1..nPositions(scan) |->
                    InclusiveMean(p, 0, Len(scan.xvector) - 1)]

(* C10: when both ROI bounds are nearest the same axis index, the map is    *)
(* built from the value of that single column, and nothing is raised.       *)
C10_CollapsedWindowIsSingleColumn ==
    ( /\ ran = "updateMap"
      /\ ~roi.none
      /\ NearestIndex(roi.from) = NearestIndex(roi.to) )
    => /\ raised = ""
       /\ image.z.values =
             [p \in 1..nPositions(scan) |->
                 Frac(scan.data[p][NearestIndex(roi.from) + 1], 1)]

====
